---- MODULE Spec2Model ----
(***************************************************************************)
(* Workout CSV utilities (Main.py): the movement catalog (movements.csv),  *)
(* the set log (workouts.csv), the importer and the summary export.        *)
(*                                                                         *)
(* A text (Python str) is a sequence of one-character strings, so that     *)
(* slugify, lower(), strip(), the substring test and ";".join are computed *)
(* character by character.  A CSV file is a header (column names) and rows *)
(* of fields; csv.writer/csv.DictReader are modelled at the level of       *)
(* parsed fields: a row is read back by looking its fields up under the    *)
(* header's column names.                                                  *)
(***************************************************************************)
EXTENDS Integers, Sequences, FiniteSets, TLC

\* ------------------------------------------------------------------ text

UPPER == <<"A","B","C","D","E","F","G","H","I","J","K","L","M",
           "N","O","P","Q","R","S","T","U","V","W","X","Y","Z">>
LOWER == <<"a","b","c","d","e","f","g","h","i","j","k","l","m",
           "n","o","p","q","r","s","t","u","v","w","x","y","z">>
DIGITS == <<"0","1","2","3","4","5","6","7","8","9">>

Range(s) == {s[i] : i \in DOMAIN s}

\* Python's None; no text equals it, every text element being one character.
None == <<"<None>">>

\* Truthiness of an optional text, and Python's `a or b`.
Falsy(v) == v = None \/ v = <<>>
Or(a, b) == IF Falsy(a) THEN b ELSE a

\* str() of a value in an f-string: None prints as "None".
Fmt(v) == IF v = None THEN <<"N","o","n","e">> ELSE v

UpperChars == Range(UPPER)
DigitChars == Range(DIGITS)
AlnumChars == Range(UPPER) \cup Range(LOWER) \cup Range(DIGITS)

\* ch.lower() over ASCII.
LowerOf == [ch \in UpperChars |-> LOWER[CHOOSE i \in DOMAIN UPPER : UPPER[i] = ch]]

LowerCh(ch) == IF ch \in UpperChars THEN LowerOf[ch] ELSE ch

\* str.lower()
lower(s) == [i \in 1..Len(s) |-> LowerCh(s[i])]

isalnum(ch) == ch \in AlnumChars

isspace(ch) == ch \in {" ", "\t", "\n", "\r"}

\* str.strip(): leading and trailing whitespace removed.
strip(s) ==
    LET keep == {i \in 1..Len(s) : ~isspace(s[i])}
    IN  IF keep = {} THEN <<>>
        ELSE SubSeq(s, CHOOSE i \in keep : \A j \in keep : i <= j,
                       CHOOSE i \in keep : \A j \in keep : i >= j)

\* Python's `needle in hay` for texts.
Contains(hay, needle) ==
    \E i \in 0..(Len(hay) - Len(needle)) :
        SubSeq(hay, i + 1, i + Len(needle)) = needle

\* str(n) for a natural number n.
RECURSIVE IntToText(_)
IntToText(n) ==
    IF n < 10 THEN <<DIGITS[n + 1]>>
    ELSE IntToText(n \div 10) \o <<DIGITS[(n % 10) + 1]>>

\* int(t) / float(t) accept a non-empty run of digits here; anything else
\* raises ValueError (BadNumber).
IsNumber(t) == t # None /\ Len(t) > 0 /\ \A i \in 1..Len(t) : t[i] \in DigitChars

RECURSIVE TextToInt(_)
TextToInt(t) ==
    IF Len(t) = 0 THEN 0
    ELSE 10 * TextToInt(SubSeq(t, 1, Len(t) - 1))
         + ((CHOOSE i \in DOMAIN DIGITS : DIGITS[i] = t[Len(t)]) - 1)

\* str(float(n)) for a whole number n: "100.0".
FloatToText(n) == IntToText(n) \o <<".", "0">>

\* sep.join(parts)
RECURSIVE Join(_, _)
Join(sep, parts) ==
    IF Len(parts) = 0 THEN <<>>
    ELSE IF Len(parts) = 1 THEN parts[1]
    ELSE parts[1] \o sep \o Join(sep, Tail(parts))

\* ----------------------------------------------------------------- slugify

SLUG_MAX == 40

\* name.strip().lower().replace(" ", "_"), the characters that are neither
\* alphanumeric nor "_" dropped, cut to the first SLUG_MAX characters.
slugify(name) ==
    LET t == lower(strip(name))
        s == [i \in 1..Len(t) |-> IF t[i] = " " THEN "_" ELSE t[i]]
        f == SelectSeq(s, LAMBDA ch : isalnum(ch) \/ ch = "_")
    IN  SubSeq(f, 1, IF Len(f) < SLUG_MAX THEN Len(f) ELSE SLUG_MAX)

\* ------------------------------------------------------------------ files

MOVEMENT_COLUMNS ==
    <<"id", "name", "category", "default_unit", "primary_muscle",
      "secondary_muscles", "notes">>

WORKOUT_COLUMNS ==
    <<"workout_id", "date", "start_time", "movement_id", "movement_name",
      "set_number", "set_type", "cluster_id", "reps", "load", "unit",
      "rest_seconds", "rpe", "tags", "notes", "created_at">>

SUMMARY_COLUMNS == <<"workout_id", "date", "movements_summary">>

\* A path that does not exist.
NoFile == [exists |-> FALSE, header |-> <<>>, rows |-> <<>>]

\* A file holding a header line and nothing else.
HeaderOnly(columns) == [exists |-> TRUE, header |-> columns, rows |-> <<>>]

\* csv.DictReader: row.get(key, default).  A column the header does not name
\* gives the default; a named column the row is too short for gives None.
row_get(header, row, key, default) ==
    IF \A i \in DOMAIN header : header[i] # key THEN default
    ELSE LET i == CHOOSE i \in DOMAIN header : header[i] = key
         IN  IF i > Len(row) THEN None ELSE row[i]

\* The dataclass Movement.
Movement(id, name, category, default_unit, primary_muscle, secondary_muscles, notes) ==
    [id |-> id, name |-> name, category |-> category, default_unit |-> default_unit,
     primary_muscle |-> primary_muscle, secondary_muscles |-> secondary_muscles,
     notes |-> notes]

\* The row csv.writer writes for a movement.
MovementRow(m) ==
    <<m.id, m.name, m.category, m.default_unit, m.primary_muscle,
      m.secondary_muscles, m.notes>>

\* A Dict[str, Movement] is the sequence of its values in insertion order,
\* each key being its value's id.
Keys(movements) == {movements[i].id : i \in DOMAIN movements}

\* An Optional[Movement] is <<>> (None) or <<m>>.
DictGet(movements, key) ==
    IF key \in Keys(movements)
    THEN <<movements[CHOOSE i \in DOMAIN movements : movements[i].id = key]>>
    ELSE <<>>

\* movements[m.id] = m: a present key keeps its place and takes the new value.
DictPut(movements, m) ==
    IF m.id \in Keys(movements)
    THEN [movements EXCEPT ![CHOOSE i \in DOMAIN movements : movements[i].id = m.id] = m]
    ELSE Append(movements, m)

\* One row of movements.csv as load_movements reads it.
RowMovement(header, row) ==
    Movement(Or(row_get(header, row, "id", None),
                slugify(row_get(header, row, "name", <<>>))),
             row_get(header, row, "name", <<>>),
             row_get(header, row, "category", <<>>),
             row_get(header, row, "default_unit", <<>>),
             row_get(header, row, "primary_muscle", <<>>),
             row_get(header, row, "secondary_muscles", <<>>),
             row_get(header, row, "notes", <<>>))

RECURSIVE LoadRows(_, _, _)
LoadRows(header, rows, k) ==
    IF k = 0 THEN <<>>
    ELSE DictPut(LoadRows(header, rows, k - 1), RowMovement(header, rows[k]))

load_movements(disk) ==
    IF ~disk.movements.exists THEN <<>>
    ELSE LoadRows(disk.movements.header, disk.movements.rows, Len(disk.movements.rows))

\* Both files are created with their headers when missing.
ensure_files_exist(disk) ==
    [disk EXCEPT
       !.movements = IF @.exists THEN @ ELSE HeaderOnly(MOVEMENT_COLUMNS),
       !.workouts  = IF @.exists THEN @ ELSE HeaderOnly(WORKOUT_COLUMNS)]

\* The result of a call: the disk it leaves, the exception it raises ("none"
\* when it returns) and the value it returns.
Result(disk, exc, value) == [disk |-> disk, exc |-> exc, value |-> value]

\* A plausible slip: the duplicate check left out.
append_movement_NoCheck(disk, m) ==
    Result([ensure_files_exist(disk) EXCEPT !.movements.rows = Append(@, MovementRow(m))],
           "none", None)

append_movement(disk, m) ==
    LET d == ensure_files_exist(disk)
    IN  IF m.id \in Keys(load_movements(d))
        THEN Result(d, "ValueError: movement id already exists", None)
        ELSE Result([d EXCEPT !.movements.rows = Append(@, MovementRow(m))],
                    "none", None)

\* A plausible slip: the id left out of the match.
find_movements_NameOnly(disk, query) ==
    SelectSeq(load_movements(disk), LAMBDA m : Contains(lower(m.name), lower(query)))

find_movements(disk, query) ==
    LET q == lower(query)
        movements == load_movements(disk)
    IN  SelectSeq(movements,
                  LAMBDA m : Contains(lower(m.name), q) \/ Contains(lower(m.id), q))

\* ---------------------------------------------------------------- set log

\* An Optional number is <<>> (None) or <<n>>, n a whole number.
\* The row append_set_record writes.  set_number is an int, load and rpe are
\* Optional[float], rest_seconds is Optional[int].
SetRow(r) ==
    <<r.workout_id, r.date, r.start_time, r.movement_id, r.movement_name,
      IntToText(r.set_number), r.set_type, r.cluster_id, r.reps,
      IF r.load = <<>> THEN <<>> ELSE FloatToText(r.load[1]),
      r.unit,
      IF r.rest_seconds = <<>> THEN <<>> ELSE IntToText(r.rest_seconds[1]),
      IF r.rpe = <<>> THEN <<>> ELSE FloatToText(r.rpe[1]),
      r.tags, r.notes, r.created_at>>

\* now is datetime.datetime.now().isoformat() at the call.
append_set_record(disk, record, now) ==
    LET d == ensure_files_exist(disk)
        r == IF record.created_at = <<>> THEN [record EXCEPT !.created_at = now]
             ELSE record
    IN  Result([d EXCEPT !.workouts.rows = Append(@, SetRow(r))], "none", None)

\* f"{movement_name}:{set_number}x{reps}@{load}" of one row of the log.
Descriptor(header, row) ==
    Fmt(row_get(header, row, "movement_name", None)) \o <<":">>
    \o Fmt(row_get(header, row, "set_number", None)) \o <<"x">>
    \o Fmt(row_get(header, row, "reps", None)) \o <<"@">>
    \o Fmt(row_get(header, row, "load", None))

\* A plausible slip: a later record's date replaces the group's.
RECURSIVE Groups_LastDate(_, _, _)
Groups_LastDate(header, rows, k) ==
    IF k = 0 THEN <<>>
    ELSE LET tmp == Groups_LastDate(header, rows, k - 1)
             r   == rows[k]
             wid == row_get(header, r, "workout_id", None)
             at  == {i \in DOMAIN tmp : tmp[i].workout_id = wid}
             tmp1 == IF at = {}
                     THEN Append(tmp, [workout_id |-> wid,
                                       date |-> row_get(header, r, "date", <<>>),
                                       movements |-> <<>>])
                     ELSE tmp
             j == CHOOSE i \in DOMAIN tmp1 : tmp1[i].workout_id = wid
         IN  [tmp1 EXCEPT ![j].movements = Append(@, Descriptor(header, r)),
                          ![j].date = row_get(header, r, "date", <<>>)]

\* tmp after the first k rows: the groups in the order their workout ids were
\* first seen (setdefault keeps the first date), each with its descriptors.
RECURSIVE Groups(_, _, _)
Groups(header, rows, k) ==
    IF k = 0 THEN <<>>
    ELSE LET tmp == Groups(header, rows, k - 1)
             r   == rows[k]
             wid == row_get(header, r, "workout_id", None)
             at  == {i \in DOMAIN tmp : tmp[i].workout_id = wid}
             tmp1 == IF at = {}
                     THEN Append(tmp, [workout_id |-> wid,
                                       date |-> row_get(header, r, "date", <<>>),
                                       movements |-> <<>>])
                     ELSE tmp
             j == CHOOSE i \in DOMAIN tmp1 : tmp1[i].workout_id = wid
         IN  [tmp1 EXCEPT ![j].movements = Append(@, Descriptor(header, r))]

\* csv.writer writes None as the empty field.
CsvField(v) == IF v = None THEN <<>> ELSE v

\* The rows export_summary writes under the summary header.
SummaryRows(groups) ==
    [i \in 1..Len(groups) |->
        <<CsvField(groups[i].workout_id), CsvField(groups[i].date), Join(<<";">>, groups[i].movements)>>]

\* out names the file written: "out" (a file of its own) or "workouts" (the
\* path of workouts.csv itself).
export_summary(disk, out) ==
    IF ~disk.workouts.exists THEN Result(disk, "none", 0)
    ELSE LET rows == Groups(disk.workouts.header, disk.workouts.rows,
                            Len(disk.workouts.rows))
             file == [exists |-> TRUE, header |-> SUMMARY_COLUMNS,
                      rows |-> SummaryRows(rows)]
         IN  Result([disk EXCEPT ![out] = file], "none", Len(rows))

\* ---------------------------------------------------------------- importer

\* A plausible slip: the suffix one behind the counter.
RECURSIVE ResolveId_OffByOne(_, _, _)
ResolveId_OffByOne(slug, existing, i) ==
    LET mid == IF i = 1 THEN slug ELSE slug \o <<"_">> \o IntToText(i - 1)
    IN  IF mid \in existing THEN ResolveId_OffByOne(slug, existing, i + 1) ELSE mid

\* mid = slugify(name); i = 1; while mid in existing: i += 1; mid = f"{slug}_{i}"
RECURSIVE ResolveId(_, _, _)
ResolveId(slug, existing, i) ==
    LET mid == IF i = 1 THEN slug ELSE slug \o <<"_">> \o IntToText(i)
    IN  IF mid \in existing THEN ResolveId(slug, existing, i + 1) ELSE mid

\* The exercise name of a source row: the first non-empty of the aliases.
RowName(header, row) ==
    strip(Or(row_get(header, row, "Exercise_Name", None),
             Or(row_get(header, row, "Exercise Name", None),
                Or(row_get(header, row, "Exercise", None), <<>>))))

\* A plausible slip: names compared as written.
NameTaken_CaseSensitive(existing, name) ==
    \E i \in DOMAIN existing : existing[i].name = name

\* any(m.name.lower() == name.lower() for m in existing.values())
NameTaken(existing, name) ==
    \E i \in DOMAIN existing : lower(existing[i].name) = lower(name)

\* The loop of import_movements_file after the first k rows of the source.
RECURSIVE ImportRows(_, _, _)
ImportRows(disk, src, k) ==
    IF k = 0
    THEN [disk |-> disk, existing |-> load_movements(disk), count |-> 0, exc |-> "none"]
    ELSE LET st   == ImportRows(disk, src, k - 1)
             row  == src.rows[k]
             name == RowName(src.header, row)
             mid  == ResolveId(slugify(name), Keys(st.existing), 1)
             m    == Movement(mid, name,
                              strip(Or(row_get(src.header, row, "Movement_Group", None), <<>>)),
                              <<>>, <<>>, <<>>, <<>>)
             r    == append_movement(st.disk, m)
         IN  IF st.exc # "none" THEN st
             ELSE IF name = <<>> THEN st
             ELSE IF NameTaken(st.existing, name) THEN st
             ELSE IF r.exc # "none" THEN [st EXCEPT !.disk = r.disk, !.exc = r.exc]
             ELSE [disk |-> r.disk, existing |-> DictPut(st.existing, m),
                   count |-> st.count + 1, exc |-> "none"]

\* src is the source file: missing, empty (no first line: header = None), or
\* a header line and rows.
import_movements_file(disk, src) ==
    IF ~src.exists THEN Result(disk, "FileNotFoundError", None)
    ELSE IF src.header = None THEN Result(disk, "IndexError", None)
    ELSE LET st == ImportRows(disk, src, Len(src.rows))
         IN  Result(st.disk, st.exc, st.count)

\* ---------------------------------------------------------------- commands

cmd_add_movement(disk, args) ==
    LET mid == Or(args.id, slugify(args.name))
    IN  append_movement(disk,
            Movement(mid, args.name, Or(args.category, <<>>),
                     Or(args.default_unit, <<>>), Or(args.primary_muscle, <<>>),
                     Or(args.secondary_muscles, <<>>), Or(args.notes, <<>>)))

\* The movement cmd_add_set settles on, before any auto-create: by id, then
\* by case-insensitive name.
LookupMovement(movements, args) ==
    LET byId == IF ~Falsy(args.movement_id)
                THEN DictGet(movements, args.movement_id) ELSE <<>>
        named == IF Falsy(args.movement_name) THEN <<>>
                 ELSE SelectSeq(movements,
                          LAMBDA m : lower(m.name) = lower(args.movement_name))
    IN  IF byId # <<>> THEN byId
        ELSE IF named # <<>> THEN <<named[1]>>
        ELSE <<>>

\* now = [date, time, iso]: the clock's reading at the call; uuid8 is
\* str(uuid.uuid4())[:8].
NumbersParse(args) ==
    /\ IsNumber(args.set_number)
    /\ args.load = None \/ IsNumber(args.load)
    /\ args.rest_seconds = None \/ IsNumber(args.rest_seconds)
    /\ args.rpe = None \/ IsNumber(args.rpe)

\* The SetRecord cmd_add_set builds from its arguments and the movement.
ArgsRecord(args, movement, uuid8, now) ==
    [workout_id   |-> Or(args.workout_id, uuid8),
     date         |-> Or(args.date, now.date),
     start_time   |-> Or(args.start_time, now.time),
     movement_id  |-> movement.id,
     movement_name |-> movement.name,
     set_number   |-> TextToInt(args.set_number),
     set_type     |-> Or(args.set_type, <<"w","o","r","k">>),
     cluster_id   |-> Or(args.cluster_id, <<>>),
     reps         |-> IF args.reps # None THEN args.reps ELSE <<>>,
     load         |-> IF args.load # None THEN <<TextToInt(args.load)>> ELSE <<>>,
     unit         |-> Or(args.unit, Or(movement.default_unit, <<>>)),
     rest_seconds |-> IF args.rest_seconds # None
                      THEN <<TextToInt(args.rest_seconds)>> ELSE <<>>,
     rpe          |-> IF args.rpe # None THEN <<TextToInt(args.rpe)>> ELSE <<>>,
     tags         |-> Or(args.tags, <<>>),
     notes        |-> Or(args.notes, <<>>),
     created_at   |-> now.iso]

\* A plausible slip: the movement made for an unknown name is not appended.
cmd_add_set_NoCreate(disk, args, uuid8, now) ==
    LET found    == LookupMovement(load_movements(disk), args)
        create   == found = <<>> /\ ~Falsy(args.movement_name)
        created  == Movement(slugify(args.movement_name), args.movement_name,
                             <<>>, <<>>, <<>>, <<>>, <<>>)
        movement == IF create THEN <<created>> ELSE found
    IN  IF movement = <<>> THEN Result(disk, "SystemExit", None)
        ELSE IF ~NumbersParse(args) THEN Result(disk, "ValueError: number", None)
        ELSE append_set_record(disk, ArgsRecord(args, movement[1], uuid8, now), now.iso)

cmd_add_set(disk, args, uuid8, now) ==
    LET found    == LookupMovement(load_movements(disk), args)
        create   == found = <<>> /\ ~Falsy(args.movement_name)
        created  == Movement(slugify(args.movement_name), args.movement_name,
                             <<>>, <<>>, <<>>, <<>>, <<>>)
        added    == append_movement(disk, created)
        d        == IF create THEN added.disk ELSE disk
        movement == IF create THEN <<created>> ELSE found
    IN  IF create /\ added.exc # "none" THEN added
        ELSE IF movement = <<>> THEN Result(d, "SystemExit", None)
        ELSE IF ~NumbersParse(args) THEN Result(d, "ValueError: number", None)
        ELSE append_set_record(d, ArgsRecord(args, movement[1], uuid8, now), now.iso)

\* One pass of cmd_start_session's loop over what the user types:
\* in = [mv, reps, load, unit, set_type].  The value returned is <<s>>, s the
\* session that continues, or <<>> when the loop ends.
session_step(disk, session, in, now) ==
    LET mv      == strip(in.mv)
        mlist   == find_movements(disk, mv)
        created == Movement(slugify(mv), mv, <<>>, <<>>, <<>>, <<>>, <<>>)
        added   == append_movement(disk, created)
        chosen  == IF mlist # <<>> THEN mlist[1] ELSE created
        d       == IF mlist # <<>> THEN disk ELSE added.disk
        load    == strip(in.load)
        rec == [workout_id   |-> session.wid,
                date         |-> session.date,
                start_time   |-> session.start_time,
                movement_id  |-> chosen.id,
                movement_name |-> chosen.name,
                set_number   |-> session.set_num,
                set_type     |-> Or(strip(in.set_type), <<"w","o","r","k">>),
                cluster_id   |-> <<>>,
                reps         |-> strip(in.reps),
                load         |-> IF load # <<>> THEN <<TextToInt(load)>> ELSE <<>>,
                unit         |-> Or(Or(strip(in.unit), chosen.default_unit), <<>>),
                rest_seconds |-> <<>>,
                rpe          |-> <<>>,
                tags         |-> <<>>,
                notes        |-> <<>>,
                created_at   |-> now.iso]
    IN  IF mv = <<>> THEN Result(disk, "none", <<>>)
        ELSE IF mlist = <<>> /\ added.exc # "none" THEN Result(added.disk, added.exc, <<>>)
        ELSE IF load # <<>> /\ ~IsNumber(load) THEN Result(d, "ValueError: number", <<>>)
        ELSE Result(append_set_record(d, rec, now.iso).disk, "none",
                    <<[session EXCEPT !.set_num = @ + 1]>>)

\* ------------------------------------------------------------------ state

VARIABLES
    disk,      \* movements.csv, workouts.csv and the export's own output file
    ret,       \* the last call: its name, arguments, exception and value returned
    session    \* cmd_start_session's locals while its loop runs

vars == <<disk, ret, session>>

NoSession == [active |-> FALSE, wid |-> <<>>, date |-> <<>>, start_time |-> <<>>,
              set_num |-> 0]

Init ==
    /\ disk = [movements |-> NoFile, workouts |-> NoFile, out |-> NoFile]
    /\ ret = [op |-> "start", args |-> <<>>, exc |-> "none", value |-> None]
    /\ session = NoSession

\* ----------------------------------------------------------------- bounds

\* Rows of movements.csv and of workouts.csv the store's functions may reach
\* when called directly, and the rows the commands may reach.
MaxRows == 3
MaxLog == 3
MaxCmdRows == 3
MaxCmdSets == 1

WithinBounds(d) ==
    /\ Len(d.movements.rows) <= MaxRows
    /\ Len(d.workouts.rows) <= MaxLog

CmdBounds(d) ==
    /\ Len(d.movements.rows) <= MaxCmdRows
    /\ Len(d.workouts.rows) <= MaxCmdSets

\* A call of op with args that ends as r does.
Call(op, args, r) ==
    /\ WithinBounds(r.disk)
    /\ disk' = r.disk
    /\ ret' = [op |-> op, args |-> args, exc |-> r.exc, value |-> r.value]

\* ----------------------------------------------------------------- inputs

tAb    == <<"A", "b">>
tab_x  == <<"a", "b", "!">>
tx_ab  == <<"!", "a", "b">>
tAB_sp == <<" ", "A", "B", " ">>
tBang  == <<"!">>
tab    == <<"a", "b">>
tab_2  == <<"a", "b", "_", "2">>
tG     == <<"G">>
tkg    == <<"k", "g">>
tw1    == <<"w", "1">>
tw2    == <<"w", "2">>
td1    == <<"d", "1">>
td2    == <<"d", "2">>
tt1    == <<"t", "1">>
t5     == <<"5">>
t5s5   == <<"5", ";", "5">>
t100   == <<"1", "0", "0">>
tBad   == <<"x">>

\* Movements handed to append_movement directly.
MovementInputs ==
    {Movement(id, name, tG, tkg, <<>>, <<>>, <<>>) :
        id \in {<<>>, tab}, name \in {tAb, tBang}}

Queries == {<<>>, <<"B">>, <<"!">>, <<"_">>, tBad}

\* Import sources: a missing file, an empty file, and tables under a header.
H1 == <<"Exercise_Name", "Movement_Group">>
H2 == <<"Exercise", "Exercise Name">>

Table(header, rows) == [exists |-> TRUE, header |-> header, rows |-> rows]

CmdSources ==
    {NoFile,
     Table(H1, << <<tAb, tG>>, <<tab_x, tG>> >>),
     Table(H1, << <<tx_ab>>, <<tAB_sp, tG>> >>)}

Sources ==
    {NoFile,
     Table(None, <<>>),
     Table(H1, << <<tAb, tG>>, <<tab_x, tG>> >>),
     Table(H1, << <<tx_ab>>, <<tAB_sp, tG>> >>),
     Table(H2, << <<<<>>, tAb>>, <<tBang>> >>),
     Table(H1, << <<tBang, tG>>, <<<<>>, tG>> >>),
     Table(H1, << <<tAb, tG>>, <<tAB_sp, tG>> >>),
     Table(H2, << <<tAb, tab_x>> >>)}

AddMovementArgs ==
    {[id |-> id, name |-> name, category |-> None, default_unit |-> None,
      primary_muscle |-> None, secondary_muscles |-> None, notes |-> None] :
        id \in {None}, name \in {tAb, tab_x}}
    \cup {[id |-> tab_2, name |-> tAb, category |-> tG, default_unit |-> tkg,
           primary_muscle |-> None, secondary_muscles |-> None, notes |-> None]}

Clock == {[date |-> td1, time |-> tt1, iso |-> td1 \o <<"T">> \o tt1]}

Uuids == {<<"u", "1">>}

\* Set records handed to append_set_record directly.
SetRecordOf(w, d, reps, load) ==
    [workout_id |-> w, date |-> d, start_time |-> tt1, movement_id |-> tab,
     movement_name |-> tAb, set_number |-> 1, set_type |-> <<"w","o","r","k">>,
     cluster_id |-> <<>>, reps |-> reps, load |-> load, unit |-> tkg,
     rest_seconds |-> <<>>, rpe |-> <<>>, tags |-> <<>>, notes |-> <<>>,
     created_at |-> <<>>]

SetRecordInputs ==
    {SetRecordOf(wd[1], wd[2], rl[1], rl[2]) :
        wd \in {<<tw1, td1>>, <<tw1, td2>>, <<tw2, td1>>},
        rl \in {<<t5, <<100>> >>, <<t5s5, <<>> >>}}

\* The file export_summary is told to write: a file of its own, or the path
\* of workouts.csv.
OutPaths == {"out", "workouts"}

AddSetArgsOf(w, mid, name, n, load) ==
    [workout_id |-> w, date |-> None, start_time |-> None,
     movement_id |-> mid, movement_name |-> name, set_number |-> n,
     set_type |-> None, cluster_id |-> None, reps |-> t5, load |-> load,
     unit |-> None, rest_seconds |-> None, rpe |-> None, tags |-> None,
     notes |-> None]

AddSetArgs ==
    {AddSetArgsOf(None, mn[1], mn[2], <<"1">>, None) :
        mn \in {<<None, None>>, <<tab, None>>, <<None, tAb>>, <<None, tab_x>>,
                <<None, tBang>>, <<tab_2, tab_x>>}}
    \cup {AddSetArgsOf(None, None, tAb, tBad, None),
          AddSetArgsOf(tw1, None, tab_x, <<"2">>, t100)}

SessionInputOf(mv, load) ==
    [mv |-> mv, reps |-> t5, load |-> load, unit |-> <<>>, set_type |-> <<>>]

SessionInputs ==
    {SessionInputOf(mv, <<>>) : mv \in {<<>>, tab, tBang}}
    \cup {SessionInputOf(tab_x, t100), SessionInputOf(tab_x, tBad)}

\* ---------------------------------------------------------------- actions

AppendMovement ==
    \E m \in MovementInputs :
        /\ Call("append_movement", <<m>>, append_movement(disk, m))
        /\ UNCHANGED session

FindMovements ==
    \E q \in Queries :
        /\ Call("find_movements", <<q>>, Result(disk, "none", find_movements(disk, q)))
        /\ UNCHANGED session

ImportMovementsFile ==
    \E src \in Sources :
        /\ Call("import_movements_file", <<src>>, import_movements_file(disk, src))
        /\ UNCHANGED session

AppendSetRecord ==
    \E rec \in SetRecordInputs, now \in Clock :
        /\ Call("append_set_record", <<rec, now>>, append_set_record(disk, rec, now.iso))
        /\ UNCHANGED session

ExportSummary ==
    \E out \in OutPaths :
        /\ Call("export_summary", <<out>>, export_summary(disk, out))
        /\ UNCHANGED session

CmdAddMovement ==
    \E args \in AddMovementArgs :
        LET r == cmd_add_movement(disk, args)
        IN  /\ ~session.active
            /\ CmdBounds(r.disk)
            /\ Call("cmd_add_movement", <<args>>, r)
            /\ UNCHANGED session

\* cmd_import_movements prints the count import_movements_file returns.
CmdImportMovements ==
    \E src \in CmdSources :
        LET r == import_movements_file(disk, src)
        IN  /\ ~session.active
            /\ CmdBounds(r.disk)
            /\ Call("cmd_import_movements", <<src>>, r)
            /\ UNCHANGED session

CmdAddSet ==
    \E args \in AddSetArgs, uuid8 \in Uuids, now \in Clock :
        LET r == cmd_add_set(disk, args, uuid8, now)
        IN  /\ ~session.active
            /\ CmdBounds(r.disk)
            /\ Call("cmd_add_set", <<args, uuid8, now>>, r)
            /\ UNCHANGED session

\* cmd_start_session up to its loop.
CmdStartSession ==
    \E wid \in {None}, uuid8 \in Uuids, now \in Clock :
        /\ ~session.active
        /\ Call("cmd_start_session", <<wid, uuid8, now>>, Result(ensure_files_exist(disk), "none", None))
        /\ session' = [active |-> TRUE, wid |-> Or(wid, uuid8),
                       date |-> Or(None, now.date), start_time |-> now.time,
                       set_num |-> 1]

\* One pass of the loop: the prompts answered, the set appended; a blank
\* movement or an exception ends the session.
SessionStep ==
    \E in \in SessionInputs, now \in Clock :
        LET r == session_step(disk, session, in, now)
        IN  /\ session.active
            /\ CmdBounds(r.disk)
            /\ Call("session_step", <<in, now>>, Result(r.disk, r.exc, None))
            /\ session' = IF r.value # <<>> THEN r.value[1] ELSE NoSession

\* The store's functions, called directly.
NextCatalog ==
    \/ AppendMovement
    \/ FindMovements
    \/ ImportMovementsFile

NextLog ==
    \/ AppendSetRecord
    \/ ExportSummary

\* The commands of main() that write the catalog or the log.
Next ==
    \/ CmdAddMovement
    \/ CmdImportMovements
    \/ CmdAddSet
    \/ CmdStartSession
    \/ SessionStep

Spec == Init /\ [][Next]_vars
SpecCatalog == Init /\ [][NextCatalog]_vars
SpecLog == Init /\ [][NextLog]_vars

\* ----------------------------------------------------------------- claims

IsPrefix(a, b) == Len(a) <= Len(b) /\ SubSeq(b, 1, Len(a)) = a

Last(q) == q[Len(q)]

DuplicateId == "ValueError: movement id already exists"

\* C1: a successful append_movement(m) followed by load_movements() gives a
\* mapping that holds the key m.id, and the entry under it carries m's fields.
C1_AppendThenLoadHasId ==
    (ret.op = "append_movement" /\ ret.exc = "none")
    => /\ ret.args[1].id \in Keys(load_movements(disk))
       /\ DictGet(load_movements(disk), ret.args[1].id) = <<ret.args[1]>>

\* C2: append_movement(m) with an id an earlier append wrote (the second of
\* two appends with the same id) fails with the duplicate-identifier error,
\* writes no row and leaves the catalog as it was.
C2_SecondAppendOfIdFails ==
    [][(/\ ret'.op = "append_movement"
        /\ \E i \in DOMAIN disk.movements.rows :
              disk.movements.rows[i][1] = ret'.args[1].id)
       => (ret'.exc = DuplicateId /\ disk'.movements = disk.movements)]_vars

\* The text holds q somewhere, case ignored character by character.
HoldsIgnoringCase(text, q) ==
    \E i \in 0..(Len(text) - Len(q)) :
        \A k \in 1..Len(q) : LowerCh(text[i + k]) = LowerCh(q[k])

\* The k-th smallest member of a set of numbers.
KthOf(S, k) == CHOOSE x \in S : Cardinality({y \in S : y < x}) = k - 1

\* C10: find_movements(q) returns exactly the catalog movements whose name or
\* id holds q ignoring case, in the catalog's order (none on an empty
\* catalog, without error), and changes nothing on disk.
C10_FindExactInOrder ==
    [][ret'.op = "find_movements"
       => LET q       == ret'.args[1]
              found   == ret'.value
              catalog == load_movements(disk)
              hits    == {i \in DOMAIN catalog :
                             \/ HoldsIgnoringCase(catalog[i].name, q)
                             \/ HoldsIgnoringCase(catalog[i].id, q)}
          IN  /\ ret'.exc = "none"
              /\ disk' = disk
              /\ Len(found) = Cardinality(hits)
              /\ \A k \in 1..Len(found) : found[k] = catalog[KthOf(hits, k)]]_vars

\* A find that matched by id alone and left another movement out.
C10_Witness ==
    /\ ret.op = "find_movements"
    /\ ret.args[1] = <<"_">>
    /\ Len(ret.value) = 1
    /\ Len(load_movements(disk)) >= 2

\* C5: import_movements_file returns the number of movements it added, which
\* is the number of source rows whose name is non-empty and equals, case
\* ignored, neither the name of a movement already in the catalog nor that of
\* an earlier row of the source; the other rows add nothing.
C5_ImportCountsNewNames ==
    [][(ret'.op = "import_movements_file" /\ ret'.exc = "none")
       => LET src    == ret'.args[1]
              before == load_movements(disk)
              after  == load_movements(disk')
              names  == [k \in 1..Len(src.rows) |-> RowName(src.header, src.rows[k])]
              fresh  == {k \in DOMAIN names :
                            /\ names[k] # <<>>
                            /\ \A i \in DOMAIN before :
                                  lower(before[i].name) # lower(names[k])
                            /\ \A j \in 1..(k - 1) : lower(names[j]) # lower(names[k])}
          IN  /\ ret'.value = Cardinality(fresh)
              /\ Len(after) = Len(before) + ret'.value
              /\ IsPrefix(before, after)
              /\ Len(disk'.movements.rows) = Len(disk.movements.rows) + ret'.value
              /\ IsPrefix(disk.movements.rows, disk'.movements.rows)
              /\ \A n \in 1..ret'.value :
                    after[Len(before) + n].name = names[KthOf(fresh, n)]]_vars

\* An import of two rows naming the same movement in different case: one
\* movement added, the other row skipped.
C5_Witness ==
    /\ ret.op = "import_movements_file"
    /\ ret.exc = "none"
    /\ ret.args[1] = Table(H1, << <<tAb, tG>>, <<tAB_sp, tG>> >>)
    /\ ret.value = 1
    /\ Len(disk.movements.rows) = 1

\* text.split(sep) for a one-character sep.
RECURSIVE Split(_, _)
Split(text, sep) ==
    IF \A i \in DOMAIN text : text[i] # sep THEN <<text>>
    ELSE LET i == CHOOSE i \in DOMAIN text :
                     text[i] = sep /\ \A j \in 1..(i - 1) : text[j] # sep
         IN  <<SubSeq(text, 1, i - 1)>> \o Split(SubSeq(text, i + 1, Len(text)), sep)

RECURSIVE SumLen(_)
SumLen(seqs) == IF seqs = <<>> THEN 0 ELSE Len(seqs[1]) + SumLen(Tail(seqs))

\* The members of a set of numbers in increasing order.
Ascending(S) == [m \in 1..Cardinality(S) |-> KthOf(S, m)]

\* C4: the set log is append-only: a successful append_set_record adds one
\* record at the end, and no operation changes, reorders or removes a record
\* already in the log.
C4_LogAppendOnly ==
    [][/\ IsPrefix(disk.workouts.rows, disk'.workouts.rows)
       /\ (ret'.op = "append_set_record" /\ ret'.exc = "none")
          => Len(disk'.workouts.rows) = Len(disk.workouts.rows) + 1]_vars

\* C8: export_summary writes one row per distinct workout_id, in the order
\* the ids are first seen in the log; a row's date is that of the first
\* record of its workout and its summary joins that workout's descriptors in
\* log order; the count returned is the number of distinct ids; an empty log
\* gives no row.
C8_SummaryFirstSeenOrder ==
    [][ret'.op = "export_summary"
       => LET log     == disk.workouts
              wids    == [k \in 1..Len(log.rows) |->
                             row_get(log.header, log.rows[k], "workout_id", None)]
              firsts  == {k \in DOMAIN wids : \A j \in 1..(k - 1) : wids[j] # wids[k]}
              written == disk'[ret'.args[1]]
          IN  IF ~log.exists THEN ret'.value = 0 /\ disk' = disk
              ELSE /\ ret'.exc = "none"
                   /\ ret'.value = Cardinality(firsts)
                   /\ written.exists /\ written.header = SUMMARY_COLUMNS
                   /\ Len(written.rows) = Cardinality(firsts)
                   /\ \A n \in 1..Len(written.rows) :
                         LET f    == KthOf(firsts, n)
                             mine == Ascending({k \in DOMAIN wids : wids[k] = wids[f]})
                         IN  /\ written.rows[n][1] = wids[f]
                             /\ written.rows[n][2] =
                                    row_get(log.header, log.rows[f], "date", <<>>)
                             /\ written.rows[n][3] =
                                    Join(<<";">>,
                                         [m \in DOMAIN mine |->
                                             Descriptor(log.header, log.rows[mine[m]])])]_vars

\* An export of a log of three sets, w1, w2, w1, the two w1 sets dated
\* differently: two rows.
C8_Witness ==
    /\ ret.op = "export_summary"
    /\ ret.args[1] = "out"
    /\ ret.value = 2
    /\ disk.workouts.header = WORKOUT_COLUMNS
    /\ Len(disk.workouts.rows) = 3
    /\ disk.workouts.rows[1][1] = tw1
    /\ disk.workouts.rows[2][1] = tw2
    /\ disk.workouts.rows[3][1] = tw1
    /\ disk.workouts.rows[1][2] # disk.workouts.rows[3][2]
    /\ Len(disk.out.rows) = 2

\* C9: N set records appended to an empty log, then summarized: the
\* movements_summary fields, split on ";", hold N tokens in all.
C9_SummaryHasNTokens ==
    [][(/\ ret'.op = "export_summary"
        /\ ret'.args[1] = "out"
        /\ disk.workouts.exists
        /\ disk.workouts.header = WORKOUT_COLUMNS)
       => SumLen([n \in DOMAIN disk'.out.rows |-> Split(disk'.out.rows[n][3], ";")])
          = Len(disk.workouts.rows)]_vars

\* The id each row of movements.csv has when loaded.
RowIds(file) == [i \in DOMAIN file.rows |-> RowMovement(file.header, file.rows[i]).id]

\* C3: from an empty catalog, under the commands that insert (add-movement,
\* import, auto-create from add-set and start-session), no two rows of
\* movements.csv have the same id as load_movements resolves it, and a row
\* once written is never changed.
C3_IdsUniqueAndStable ==
    [][/\ IsPrefix(disk.movements.rows, disk'.movements.rows)
       /\ disk.movements.exists => disk'.movements.header = disk.movements.header
       /\ \A i, j \in DOMAIN disk'.movements.rows :
             i # j => RowIds(disk'.movements)[i] # RowIds(disk'.movements)[j]]_vars

\* Three rows, one of them written with an empty id, the last by add-set.
C3_Witness ==
    /\ ret.op = "cmd_add_set"
    /\ ret.exc = "none"
    /\ Len(disk.movements.rows) = 3
    /\ \E i \in DOMAIN disk.movements.rows : disk.movements.rows[i][1] = <<>>

\* slug, slug_2, slug_3, ...: the first not among taken.
IsLeastFree(id, slug, taken) ==
    IF slug \notin taken THEN id = slug
    ELSE \E i \in 2..(Cardinality(taken) + 2) :
            /\ id = slug \o <<"_">> \o IntToText(i)
            /\ id \notin taken
            /\ \A j \in 2..(i - 1) : (slug \o <<"_">> \o IntToText(j)) \in taken

\* No catalog movement is named as name is, case ignored.
Unnamed(catalog, name) ==
    \A i \in DOMAIN catalog : lower(catalog[i].name) # lower(name)

\* cmd_add_set finds no movement for args and has a name to create one from.
AddSetCreates(catalog, args) ==
    /\ Falsy(args.movement_id) \/ args.movement_id \notin Keys(catalog)
    /\ ~Falsy(args.movement_name)
    /\ Unnamed(catalog, args.movement_name)

\* C6 as stated: on every insert path, a movement whose name normalizes to a
\* slug s already in the catalog is inserted, under s_2, s_3, ...
C6_EveryPathSuffixes ==
    [][LET before == load_movements(disk)
           after  == load_movements(disk')
           suffixed(name) ==
               /\ ret'.exc = "none"
               /\ Len(after) = Len(before) + 1
               /\ Last(after).name = name
               /\ IsLeastFree(Last(after).id, slugify(name), Keys(before))
       IN  /\ (/\ ret'.op = "cmd_add_movement"
               /\ Falsy(ret'.args[1].id)
               /\ Unnamed(before, ret'.args[1].name)
               /\ slugify(ret'.args[1].name) \in Keys(before))
              => suffixed(ret'.args[1].name)
           /\ (/\ ret'.op = "cmd_add_set"
               /\ AddSetCreates(before, ret'.args[1])
               /\ IsNumber(ret'.args[1].set_number)
               /\ slugify(ret'.args[1].movement_name) \in Keys(before))
              => suffixed(ret'.args[1].movement_name)]_vars

\* C6 as the code has it: the importer gives a new movement the first free of
\* s, s_2, s_3, ...; add-movement without an id, and the auto-create of
\* add-set and of start-session, fail with the duplicate-identifier error when
\* s is taken, and change nothing.
C6_ImportSuffixesOthersFail ==
    [][LET before == load_movements(disk)
           after  == load_movements(disk')
       IN  /\ (ret'.op = "cmd_import_movements" /\ ret'.exc = "none")
              => /\ IsPrefix(before, after)
                 /\ \A n \in (Len(before) + 1)..Len(after) :
                       IsLeastFree(after[n].id, slugify(after[n].name),
                                   Keys(SubSeq(after, 1, n - 1)))
           /\ (/\ ret'.op = "cmd_add_movement"
               /\ Falsy(ret'.args[1].id)
               /\ slugify(ret'.args[1].name) \in Keys(before))
              => (ret'.exc = DuplicateId /\ disk' = disk)
           /\ (/\ ret'.op = "cmd_add_set"
               /\ AddSetCreates(before, ret'.args[1])
               /\ slugify(ret'.args[1].movement_name) \in Keys(before))
              => (ret'.exc = DuplicateId /\ disk' = disk)
           /\ (/\ ret'.op = "session_step"
               /\ strip(ret'.args[1].mv) # <<>>
               /\ find_movements(disk, strip(ret'.args[1].mv)) = <<>>
               /\ slugify(strip(ret'.args[1].mv)) \in Keys(before))
              => (ret'.exc = DuplicateId /\ disk' = disk)]_vars

\* An import that had to go to the third id of a slug.
C6_Witness ==
    /\ ret.op = "cmd_import_movements"
    /\ ret.exc = "none"
    /\ ret.value >= 1
    /\ {tab, tab_2, <<"a", "b", "_", "3">>} \subseteq Keys(load_movements(disk))
    /\ Last(load_movements(disk)).id = <<"a", "b", "_", "3">>

\* The catalog gains the movement add-set creates from name, and the log a
\* set of that movement.
CreatedAndLogged(name) ==
    /\ ret'.exc = "none"
    /\ load_movements(disk') =
          Append(load_movements(disk),
                 Movement(slugify(name), name, <<>>, <<>>, <<>>, <<>>, <<>>))
    /\ Len(disk'.workouts.rows) = Len(disk.workouts.rows) + 1
    /\ IsPrefix(disk.workouts.rows, disk'.workouts.rows)
    /\ Last(disk'.workouts.rows)[4] = slugify(name)
    /\ Last(disk'.workouts.rows)[5] = name

\* A set just logged names a movement id the catalog holds.
LoggedSetIsKnown ==
    (ret'.op \in {"cmd_add_set", "session_step"}
     /\ disk'.workouts.rows # disk.workouts.rows)
    => /\ Len(disk'.workouts.rows) = Len(disk.workouts.rows) + 1
       /\ IsPrefix(disk.workouts.rows, disk'.workouts.rows)
       /\ Last(disk'.workouts.rows)[4] \in Keys(load_movements(disk'))

\* C7 as stated: add-set by a name no catalog movement matches creates the
\* movement under the name's slug and logs the set under that id; every set
\* logged by add-set or start-session names a movement id in the catalog.
C7_AutoCreateAlways ==
    [][/\ (/\ ret'.op = "cmd_add_set"
           /\ AddSetCreates(load_movements(disk), ret'.args[1])
           /\ NumbersParse(ret'.args[1]))
          => CreatedAndLogged(ret'.args[1].movement_name)
       /\ LoggedSetIsKnown]_vars

\* C7 as the code has it: the same when the name's slug is not yet a catalog
\* id; when it is, add-set fails with the duplicate-identifier error and
\* neither creates nor logs; when a number does not parse, the movement is
\* created and no set is logged.
C7_AutoCreateUnlessSlugTaken ==
    [][/\ (ret'.op = "cmd_add_set" /\ AddSetCreates(load_movements(disk), ret'.args[1]))
          => LET args == ret'.args[1]
                 slug == slugify(args.movement_name)
             IN  IF slug \in Keys(load_movements(disk))
                 THEN ret'.exc = DuplicateId /\ disk' = disk
                 ELSE IF NumbersParse(args)
                 THEN CreatedAndLogged(args.movement_name)
                 ELSE /\ ret'.exc = "ValueError: number"
                      /\ Last(load_movements(disk')).id = slug
                      /\ disk'.workouts.rows = disk.workouts.rows
       /\ LoggedSetIsKnown]_vars

\* An add-set by the name "ab!", unknown to the catalog, has created the
\* movement ab and logged a set of it.
C7_Witness ==
    /\ ret.op = "cmd_add_set"
    /\ ret.exc = "none"
    /\ ret.args[1].movement_name = tab_x
    /\ Len(disk.movements.rows) = 1
    /\ disk.movements.rows[1][1] = tab
    /\ disk.movements.rows[1][2] = tab_x
    /\ Len(disk.workouts.rows) = 1
    /\ disk.workouts.rows[1][4] = tab

====
